---- MODULE Spec2Model ----
(***************************************************************************)
(* State-manager core of the visual-inertial EKF                            *)
(* (ov_msckf/src/state/StateHelper.cpp).  The covariance is modelled with   *)
(* exact rational entries <<numerator, denominator>>; the state vector is   *)
(* scaled down: orientation, position, velocity, time offset and landmarks  *)
(* are one-dimensional, so a pose has size 2 and the IMU size 3.            *)
(***************************************************************************)
EXTENDS Integers, Sequences, FiniteSets, TLC

(* ------------------------------ bounds --------------------------------- *)
\* number of calls explored after the starting state
MaxSteps == 2
\* number of Type objects clone() may allocate
MaxClones == 3
\* number of Landmark objects the SLAM manager may make
MaxLandmarks == 4

(* ------------------------- evaluation ----------------------------------- *)
\* F at the value of e: the argument is evaluated once, then handed over
With(e, F(_)) == CHOOSE r \in {F(x) : x \in {e}} : TRUE
With2(e1, e2, F(_, _)) == CHOOSE r \in {F(x, y) : x \in {e1}, y \in {e2}} : TRUE
With3(e1, e2, e3, F(_, _, _)) ==
  CHOOSE r \in {F(x, y, z) : x \in {e1}, y \in {e2}, z \in {e3}} : TRUE

(* ------------------------- exact scalars (double) ----------------------- *)
Abs(x) == IF x < 0 THEN -x ELSE x

RECURSIVE GCD(_, _)
GCD(a0, b0) == With2(a0, b0, LAMBDA a, b : IF b = 0 THEN a ELSE GCD(b, a % b))

Rat(n0, d0) ==
  With2(n0, d0, LAMBDA n, d :
    With(GCD(Abs(n), Abs(d)), LAMBDA g :
      IF d < 0 THEN <<(-n) \div g, (-d) \div g>> ELSE <<n \div g, d \div g>>))

RInt(n) == <<n, 1>>
RZero == <<0, 1>>
ROne == <<1, 1>>
RAdd(x0, y0) ==
  With2(x0, y0, LAMBDA x, y :
    With(GCD(x[2], y[2]), LAMBDA g :
      Rat(x[1] * (y[2] \div g) + y[1] * (x[2] \div g), (x[2] \div g) * y[2])))
RNeg(x0) == With(x0, LAMBDA x : <<-x[1], x[2]>>)
RSub(x, y) == RAdd(x, RNeg(y))
RMul(x0, y0) ==
  With2(x0, y0, LAMBDA x, y :
    With2(GCD(Abs(x[1]), y[2]), GCD(Abs(y[1]), x[2]), LAMBDA g, h :
      Rat((x[1] \div g) * (y[1] \div h), (x[2] \div h) * (y[2] \div g))))
RDiv(x, y0) ==
  With(y0, LAMBDA y :
    RMul(x, IF y[1] < 0 THEN <<-y[2], -y[1]>> ELSE <<y[2], y[1]>>))
RLt(x, y) == RSub(x, y)[1] < 0
RAbs(x0) == With(x0, LAMBDA x : <<Abs(x[1]), x[2]>>)

\* std::sqrt on the scalars whose root is rational (the inputs are chosen so)
ISqrt(n0) == With(n0, LAMBDA n : CHOOSE k \in 0..n : k * k = n)
IsSquare(n0) == \E n \in {n0} : \E k \in 0..n : k * k = n
RSqrt(x0) == With(x0, LAMBDA x : <<ISqrt(x[1]), ISqrt(x[2])>>)

(* ------------------------- dense matrices (Eigen) ----------------------- *)
\* the entries are computed once, when the matrix is built
Mat(r, c, F(_, _)) ==
  CHOOSE M \in {[rows |-> r, cols |-> c,
                 a |-> [ij \in (0..(r - 1)) \X (0..(c - 1)) |-> F(ij[1], ij[2])]]} :
    M = M

At(M, i, j) == M.a[<<i, j>>]

Zero(r, c) == Mat(r, c, LAMBDA i, j : RZero)
Identity(n) == Mat(n, n, LAMBDA i, j : IF i = j THEN ROne ELSE RZero)
IntMat(S) == Mat(Len(S), IF Len(S) = 0 THEN 0 ELSE Len(S[1]),
                 LAMBDA i, j : RInt(S[i + 1][j + 1]))

\* M.block(i, j, p, q)
Block(M0, i, j, p, q) ==
  With(M0, LAMBDA M : Mat(p, q, LAMBDA u, v : At(M, i + u, j + v)))

\* M.block(i, j, B.rows, B.cols) = B
SetBlock(M0, i, j, B0) ==
  With2(M0, B0, LAMBDA M, B :
    Mat(M.rows, M.cols,
        LAMBDA u, v : IF u >= i /\ u < i + B.rows /\ v >= j /\ v < j + B.cols
                      THEN At(B, u - i, v - j) ELSE At(M, u, v)))

Transpose(M0) ==
  With(M0, LAMBDA M : Mat(M.cols, M.rows, LAMBDA i, j : At(M, j, i)))

RECURSIVE DotK(_, _, _, _, _)
DotK(A, B, i, j, k) ==
  IF k = 0 THEN RZero
  ELSE RAdd(DotK(A, B, i, j, k - 1), RMul(At(A, i, k - 1), At(B, k - 1, j)))

MatMul(A0, B0) ==
  With2(A0, B0, LAMBDA A, B :
    Mat(A.rows, B.cols, LAMBDA i, j : DotK(A, B, i, j, A.cols)))
MatAdd(A0, B0) ==
  With2(A0, B0, LAMBDA A, B :
    Mat(A.rows, A.cols, LAMBDA i, j : RAdd(At(A, i, j), At(B, i, j))))
MatSub(A0, B0) ==
  With2(A0, B0, LAMBDA A, B :
    Mat(A.rows, A.cols, LAMBDA i, j : RSub(At(A, i, j), At(B, i, j))))
MatNeg(A0) ==
  With(A0, LAMBDA A : Mat(A.rows, A.cols, LAMBDA i, j : RNeg(At(A, i, j))))

\* M.selfadjointView<Eigen::Upper>()
SelfadjointUpper(M0) ==
  With(M0, LAMBDA M :
    Mat(M.rows, M.cols, LAMBDA i, j : IF i <= j THEN At(M, i, j) ELSE At(M, j, i)))

\* M.conservativeResizeLike(Zero(r, c))
ConservativeResize(M0, r, c) ==
  With(M0, LAMBDA M :
    Mat(r, c, LAMBDA i, j : IF i < M.rows /\ j < M.cols THEN At(M, i, j) ELSE RZero))

\* the matrix without row i and column j
Minor(M0, i, j) ==
  With(M0, LAMBDA M :
    Mat(M.rows - 1, M.cols - 1,
        LAMBDA u, v : At(M, IF u < i THEN u ELSE u + 1, IF v < j THEN v ELSE v + 1)))

RECURSIVE Det(_)
RECURSIVE DetK(_, _)
DetK(M, k) ==
  IF k = 0 THEN RZero
  ELSE RAdd(DetK(M, k - 1),
            RMul(IF (k - 1) % 2 = 0 THEN At(M, 0, k - 1) ELSE RNeg(At(M, 0, k - 1)),
                 Det(Minor(M, 0, k - 1))))
Det(M0) == With(M0, LAMBDA M : IF M.rows = 0 THEN ROne ELSE DetK(M, M.cols))

\* M.inverse(), and llt().solve() on a positive definite M
Inverse(M0) ==
  With(M0, LAMBDA M :
    With(Det(M), LAMBDA d :
      Mat(M.rows, M.cols,
          LAMBDA i, j : RDiv(IF (i + j) % 2 = 0 THEN Det(Minor(M, j, i))
                             ELSE RNeg(Det(Minor(M, j, i))),
                             d))))

\* llt() succeeds: every leading principal minor is positive
PositiveDefinite(M0) ==
  \E M \in {M0} : \A k \in 1..M.rows : RLt(RZero, Det(Block(M, 0, 0, k, k)))

IsSymmetric(M0) ==
  \E M \in {M0} :
    /\ M.rows = M.cols
    /\ \A i, j \in 0..(M.rows - 1) : At(M, i, j) = At(M, j, i)

NonNegDiag(M0) ==
  \E M \in {M0} : \A i \in 0..(M.rows - 1) : ~RLt(At(M, i, i), RZero)

(* ------------------------- Type objects -------------------------------- *)
\* handles of the Type objects (shared_ptr<Type>); NoHandle is nullptr
NoHandle == 0
IMU == 1
POSE == 2
VEL == 3
DT == 4
Landmarks == 5..(4 + MaxLandmarks)
CloneHandles == (5 + MaxLandmarks)..(4 + MaxLandmarks + MaxClones)
Handles == 1..(4 + MaxLandmarks + MaxClones)

\* an empty std::map / std::unordered_map
EmptyMap == [x \in {} |-> NoHandle]
\* the entry is filed under the key that follows k
MapPutNextKey(m, k, v) == [x \in DOMAIN m \cup {k + 1} |-> IF x = k + 1 THEN v ELSE m[x]]

MapPut(m, k, v) == [x \in DOMAIN m \cup {k} |-> IF x = k THEN v ELSE m[x]]
MapErase(m, k) == [x \in DOMAIN m \ {k} |-> m[x]]

ZeroVec(n) == [i \in 1..n |-> RZero]

NoObject == [kind |-> "none", size |-> 0, id |-> -1, value |-> <<>>, should_marg |-> FALSE]
NewObject(k, n) ==
  [kind |-> k, size |-> n, id |-> -1, value |-> ZeroVec(n), should_marg |-> FALSE]

\* Type::set_local_id; the IMU forwards the id to its pose and velocity
set_local_id(types0, h, new_id) ==
  With(types0, LAMBDA types :
    IF h = IMU
    THEN [types EXCEPT ![IMU].id = new_id,
                       ![POSE].id = new_id,
                       ![VEL].id = IF new_id = -1 THEN -1 ELSE new_id + types[POSE].size]
    ELSE [types EXCEPT ![h].id = new_id])

\* Type::check_if_subvariable: only the IMU has sub-variables
check_if_subvariable(h, check) ==
  IF h = IMU /\ check \in {POSE, VEL} THEN check ELSE NoHandle

\* Type::update on a vector: value + dx; the IMU forwards to its parts
VecAdd(v0, dx0) ==
  With2(v0, dx0, LAMBDA v, dx : [i \in 1..Len(v) |-> RAdd(v[i], At(dx, i - 1, 0))])
update(types0, h, dx) ==
  With(types0, LAMBDA types :
    With(VecAdd(types[h].value, dx), LAMBDA nv :
      IF h = IMU
      THEN [types EXCEPT ![IMU].value = nv,
                         ![POSE].value = SubSeq(nv, 1, 2),
                         ![VEL].value = SubSeq(nv, 3, 3)]
      ELSE [types EXCEPT ![h].value = nv]))

\* State::State: the IMU, and the camera time offset when it is calibrated
InitTypes ==
  [h \in Handles |->
     IF h = IMU THEN NewObject("IMU", 3)
     ELSE IF h = POSE THEN NewObject("PoseJPL", 2)
     ELSE IF h = VEL THEN NewObject("Vec", 1)
     ELSE IF h = DT THEN NewObject("Vec", 1)
     ELSE NoObject]

InitState(calib_dt) ==
  With(set_local_id(InitTypes, IMU, 0), LAMBDA t1 :
    [Cov |-> Identity(IF calib_dt THEN 4 ELSE 3),
     variables |-> IF calib_dt THEN <<IMU, DT>> ELSE <<IMU>>,
     types |-> IF calib_dt THEN set_local_id(t1, DT, 3) ELSE t1,
     clones_IMU |-> EmptyMap,
     features_SLAM |-> EmptyMap,
     timestamp |-> 0,
     options |-> [max_clone_size |-> 1, max_aruco_features |-> 1,
                  do_calib_camera_timeoffset |-> calib_dt,
                  do_calib_camera_intrinsics |-> FALSE],
     ok |-> TRUE])

\* std::exit(EXIT_FAILURE) / a failed assert: the process ends in state s
Abort(s) == [s EXCEPT !.ok = FALSE]

InVariables(s, h) == \E k \in 1..Len(s.variables) : s.variables[k] = h

\* current_it of every variable of an order (H_id, Phi_id, i_index, k_index)
RECURSIVE OrderSize(_, _)
OrderSize(s, order0) ==
  With(order0, LAMBDA order :
    IF Len(order) = 0 THEN 0
    ELSE OrderSize(s, SubSeq(order, 1, Len(order) - 1))
           + s.types[order[Len(order)]].size)
OrderIds(s, order0) ==
  With(order0, LAMBDA order :
    [i \in 1..Len(order) |-> OrderSize(s, SubSeq(order, 1, i - 1))])

(* ------------------------- get_marginal_covariance ---------------------- *)
RECURSIVE MarginalLoop(_, _, _, _)
MarginalLoop(s, small_variables, ids, p0) ==
  With(p0, LAMBDA p :
    IF p = 0 THEN Zero(OrderSize(s, small_variables), OrderSize(s, small_variables))
    ELSE LET n == Len(small_variables)
             i == ((p - 1) \div n) + 1
             k == ((p - 1) % n) + 1
             vi == s.types[small_variables[i]]
             vk == s.types[small_variables[k]]
         IN  SetBlock(MarginalLoop(s, small_variables, ids, p - 1), ids[i], ids[k],
                      Block(s.Cov, vi.id, vk.id, vi.size, vk.size)))

get_marginal_covariance(s0, small_variables0) ==
  With2(s0, small_variables0, LAMBDA s, small_variables :
    With(OrderIds(s, small_variables), LAMBDA ids :
      MarginalLoop(s, small_variables, ids,
                   Len(small_variables) * Len(small_variables))))

get_full_covariance(s0) ==
  With(s0, LAMBDA s : SetBlock(Zero(s.Cov.rows, s.Cov.rows), 0, 0, s.Cov))

(* ------------------------- set_initial_covariance ----------------------- *)
\* only the blocks of a variable with itself are copied
RECURSIVE InitialLoopOwnBlocks(_, _, _, _, _)
InitialLoopOwnBlocks(s, covariance, order, ids, p0) ==
  With(p0, LAMBDA p :
    IF p = 0 THEN s.Cov
    ELSE LET n == Len(order)
             i == ((p - 1) \div n) + 1
             k == ((p - 1) % n) + 1
             vi == s.types[order[i]]
         IN  IF i # k THEN InitialLoopOwnBlocks(s, covariance, order, ids, p - 1)
             ELSE SetBlock(InitialLoopOwnBlocks(s, covariance, order, ids, p - 1),
                           vi.id, vi.id,
                           Block(covariance, ids[i], ids[i], vi.size, vi.size)))

RECURSIVE InitialLoop(_, _, _, _, _)
InitialLoop(s, covariance, order, ids, p0) ==
  With(p0, LAMBDA p :
    IF p = 0 THEN s.Cov
    ELSE LET n == Len(order)
             i == ((p - 1) \div n) + 1
             k == ((p - 1) % n) + 1
             vi == s.types[order[i]]
             vk == s.types[order[k]]
         IN  SetBlock(InitialLoop(s, covariance, order, ids, p - 1), vi.id, vk.id,
                      Block(covariance, ids[i], ids[k], vi.size, vk.size)))

set_initial_covariance(s0, covariance0, order0) ==
  With3(s0, covariance0, order0, LAMBDA s, covariance, order :
    With(OrderIds(s, order), LAMBDA ids :
      [s EXCEPT !.Cov = SelfadjointUpper(
          InitialLoop(s, covariance, order, ids, Len(order) * Len(order)))]))

(* ------------------------- marginalize ---------------------------------- *)
\* ids of the variables that stay, moved forward when beyond the marginal one
\* the loop keeps every id where it was
MoveForwardNoShift(types0, vars0, marg, marg_id, marg_size) == types0

RECURSIVE MoveForward(_, _, _, _, _)
MoveForward(types0, vars0, marg, marg_id, marg_size) ==
  With2(types0, vars0, LAMBDA types, vars :
    IF Len(vars) = 0 THEN types
    ELSE MoveForward(IF vars[1] # marg /\ types[vars[1]].id > marg_id
                     THEN set_local_id(types, vars[1], types[vars[1]].id - marg_size)
                     ELSE types,
                     Tail(vars), marg, marg_id, marg_size))

\* the marginalized variable stays in the list
RemainingAll(vars, marg) == vars

Remaining(vars, marg) == SelectSeq(vars, LAMBDA h : h # marg)

\* P(x1, x2) is read from the columns of the marginalized variable
MargCovShifted(Cov0, marg_id, marg_size) ==
  With(Cov0, LAMBDA Cov :
    LET x2_size == Cov.rows - marg_id - marg_size
        c0 == Zero(Cov.rows - marg_size, Cov.rows - marg_size)
        c1 == SetBlock(c0, 0, 0, Block(Cov, 0, 0, marg_id, marg_id))
    IN  With(SetBlock(c1, 0, marg_id, Block(Cov, 0, marg_id, marg_id, x2_size)),
             LAMBDA c2 :
               SetBlock(SetBlock(c2, marg_id, 0,
                                 Transpose(Block(c2, 0, marg_id, marg_id, x2_size))),
                        marg_id, marg_id,
                        Block(Cov, marg_id + marg_size, marg_id + marg_size,
                              x2_size, x2_size))))

MargCov(Cov0, marg_id, marg_size) ==
  With(Cov0, LAMBDA Cov :
    LET x2_size == Cov.rows - marg_id - marg_size
        c0 == Zero(Cov.rows - marg_size, Cov.rows - marg_size)
        c1 == SetBlock(c0, 0, 0, Block(Cov, 0, 0, marg_id, marg_id))
    IN  With(SetBlock(c1, 0, marg_id,
                      Block(Cov, 0, marg_id + marg_size, marg_id, x2_size)),
             LAMBDA c2 :
               SetBlock(SetBlock(c2, marg_id, 0,
                                 Transpose(Block(c2, 0, marg_id, marg_id, x2_size))),
                        marg_id, marg_id,
                        Block(Cov, marg_id + marg_size, marg_id + marg_size,
                              x2_size, x2_size))))

marginalize(s0, marg) ==
  With(s0, LAMBDA s :
    IF ~InVariables(s, marg) THEN Abort(s)
    ELSE LET marg_size == s.types[marg].size
             marg_id == s.types[marg].id
             moved == MoveForward(s.types, s.variables, marg, marg_id, marg_size)
         IN  [s EXCEPT !.Cov = MargCov(s.Cov, marg_id, marg_size),
                       !.types = set_local_id(moved, marg, -1),
                       !.variables = Remaining(s.variables, marg)])

(* ------------------------- clone ---------------------------------------- *)
\* first k whose variable is variable_to_clone or has it as a sub-variable
CloneMatch(s, k, variable_to_clone) ==
  \/ s.variables[k] = variable_to_clone
  \/ check_if_subvariable(s.variables[k], variable_to_clone) = variable_to_clone

FreshHandle(s) ==
  CHOOSE h \in CloneHandles :
    /\ s.types[h].kind = "none"
    /\ \A g \in CloneHandles : s.types[g].kind = "none" => h <= g

\* the rows of the clone are left as the resize made them
CloneCovNoRows(Cov0, old_loc, total_size) ==
  With(Cov0, LAMBDA Cov :
    With(ConservativeResize(Cov, Cov.rows + total_size, Cov.rows + total_size),
         LAMBDA c0 :
      With(SetBlock(c0, Cov.rows, Cov.rows,
                    Block(c0, old_loc, old_loc, total_size, total_size)),
           LAMBDA c1 :
        SetBlock(c1, 0, Cov.rows, Block(c1, 0, old_loc, Cov.rows, total_size)))))

CloneCov(Cov0, old_loc, total_size) ==
  With(Cov0, LAMBDA Cov :
    With(ConservativeResize(Cov, Cov.rows + total_size, Cov.rows + total_size),
         LAMBDA c0 :
      With(SetBlock(c0, Cov.rows, Cov.rows,
                    Block(c0, old_loc, old_loc, total_size, total_size)),
           LAMBDA c1 :
        With(SetBlock(c1, 0, Cov.rows, Block(c1, 0, old_loc, Cov.rows, total_size)),
             LAMBDA c2 :
          SetBlock(c2, Cov.rows, 0, Block(c2, old_loc, 0, total_size, Cov.rows))))))

\* returns the state and the new object (field new_clone)
clone(s0, variable_to_clone) ==
  With(s0, LAMBDA s :
    LET total_size == s.types[variable_to_clone].size
        old_size == s.Cov.rows
        found == {k \in 1..Len(s.variables) : CloneMatch(s, k, variable_to_clone)}
    IN  IF found = {}
        THEN [st |-> Abort([s EXCEPT !.Cov = ConservativeResize(
                               s.Cov, old_size + total_size, old_size + total_size)]),
              new_clone |-> NoHandle]
        ELSE LET src == s.types[variable_to_clone]
                 h == FreshHandle(s)
                 obj == [kind |-> src.kind, size |-> src.size, id |-> old_size,
                         value |-> src.value, should_marg |-> FALSE]
             IN  [st |-> [s EXCEPT !.Cov = CloneCov(s.Cov, src.id, total_size),
                                   !.types = [s.types EXCEPT ![h] = obj],
                                   !.variables = Append(s.variables, h)],
                  new_clone |-> h])


(* ------------------------- EKFPropagation ------------------------------- *)
Attached(s, order) == \A i \in 1..Len(order) : s.types[order[i]].id >= 0

Contiguous(s, order_NEW) ==
  \A i \in 1..(Len(order_NEW) - 1) :
    s.types[order_NEW[i]].id + s.types[order_NEW[i]].size = s.types[order_NEW[i + 1]].id

\* only the first variable of order_OLD is propagated
CovPhiTLoopFirstOnly(s, order_OLD, Phi, Phi_id, i0) ==
  With(s.types[order_OLD[1]], LAMBDA var :
    MatMul(Block(s.Cov, 0, var.id, s.Cov.rows, var.size),
           Transpose(Block(Phi, 0, Phi_id[1], Phi.rows, var.size))))

RECURSIVE CovPhiTLoop(_, _, _, _, _)
CovPhiTLoop(s, order_OLD, Phi, Phi_id, i0) ==
  With(i0, LAMBDA i :
    IF i = 0 THEN Zero(s.Cov.rows, Phi.rows)
    ELSE LET var == s.types[order_OLD[i]]
         IN  MatAdd(CovPhiTLoop(s, order_OLD, Phi, Phi_id, i - 1),
                    MatMul(Block(s.Cov, 0, var.id, s.Cov.rows, var.size),
                           Transpose(Block(Phi, 0, Phi_id[i], Phi.rows, var.size)))))

\* the products with Phi are left out of the new block
PhiCovPhiTLoopOnlyQ(s, order_OLD, Phi, Q, Phi_id, Cov_PhiT, i0) == SelfadjointUpper(Q)

RECURSIVE PhiCovPhiTLoop(_, _, _, _, _, _, _)
PhiCovPhiTLoop(s, order_OLD, Phi, Q, Phi_id, Cov_PhiT, i0) ==
  With(i0, LAMBDA i :
    IF i = 0 THEN SelfadjointUpper(Q)
    ELSE LET var == s.types[order_OLD[i]]
         IN  MatAdd(PhiCovPhiTLoop(s, order_OLD, Phi, Q, Phi_id, Cov_PhiT, i - 1),
                    MatMul(Block(Phi, 0, Phi_id[i], Phi.rows, var.size),
                           Block(Cov_PhiT, var.id, 0, var.size, Phi.rows))))

\* the propagated block is appended to Cov instead of written in place
PropagateCovAppended(s, order_NEW, order_OLD, Phi, Q) ==
  With(OrderIds(s, order_OLD), LAMBDA Phi_id :
    With(CovPhiTLoop(s, order_OLD, Phi, Phi_id, Len(order_OLD)), LAMBDA Cov_PhiT :
      SetBlock(ConservativeResize(s.Cov, s.Cov.rows + Phi.rows, s.Cov.rows + Phi.rows),
               s.Cov.rows, s.Cov.rows,
               PhiCovPhiTLoop(s, order_OLD, Phi, Q, Phi_id, Cov_PhiT, Len(order_OLD)))))

PropagateCov(s, order_NEW, order_OLD, Phi, Q) ==
  With(OrderIds(s, order_OLD), LAMBDA Phi_id :
    With(CovPhiTLoop(s, order_OLD, Phi, Phi_id, Len(order_OLD)), LAMBDA Cov_PhiT :
      LET Phi_Cov_PhiT ==
            PhiCovPhiTLoop(s, order_OLD, Phi, Q, Phi_id, Cov_PhiT, Len(order_OLD))
          start_id == s.types[order_NEW[1]].id
          c1 == SetBlock(s.Cov, start_id, 0, Transpose(Cov_PhiT))
          c2 == SetBlock(c1, 0, start_id, Cov_PhiT)
      IN  SetBlock(c2, start_id, start_id, Phi_Cov_PhiT)))

\* the diagonal is never looked at
found_negSkipped(Cov0) == FALSE

\* the diagonal check that ends EKFPropagation and EKFUpdate
found_neg(Cov0) ==
  \E Cov \in {Cov0} : \E i \in 0..(Cov.rows - 1) : RLt(At(Cov, i, i), RZero)

EKFPropagation(s0, order_NEW, order_OLD, Phi, Q) ==
  With(s0, LAMBDA s :
    IF Len(order_NEW) = 0 \/ Len(order_OLD) = 0 THEN Abort(s)
    ELSE IF ~Contiguous(s, order_NEW) THEN Abort(s)
    ELSE IF ~(/\ OrderSize(s, order_NEW) = Phi.rows
              /\ OrderSize(s, order_OLD) = Phi.cols
              /\ OrderSize(s, order_NEW) = Q.cols
              /\ OrderSize(s, order_NEW) = Q.rows) THEN Abort(s)
    ELSE With(PropagateCov(s, order_NEW, order_OLD, Phi, Q), LAMBDA c :
           IF found_neg(c) THEN Abort([s EXCEPT !.Cov = c])
           ELSE [s EXCEPT !.Cov = c]))

(* ------------------------- EKFUpdate ------------------------------------ *)
\* M_i = sum over the measured variables of Cov(var, meas_var) * H_meas_var'
\* every measured variable is paired with the first columns of H
RECURSIVE MiLoopFirstColumns(_, _, _, _, _, _)
MiLoopFirstColumns(s, var, H_order, H, H_id, i0) ==
  With(i0, LAMBDA i :
    IF i = 0 THEN Zero(var.size, H.rows)
    ELSE LET meas_var == s.types[H_order[i]]
         IN  MatAdd(MiLoopFirstColumns(s, var, H_order, H, H_id, i - 1),
                    MatMul(Block(s.Cov, var.id, meas_var.id, var.size, meas_var.size),
                           Transpose(Block(H, 0, 0, H.rows, meas_var.size)))))

RECURSIVE MiLoop(_, _, _, _, _, _)
MiLoop(s, var, H_order, H, H_id, i0) ==
  With(i0, LAMBDA i :
    IF i = 0 THEN Zero(var.size, H.rows)
    ELSE LET meas_var == s.types[H_order[i]]
         IN  MatAdd(MiLoop(s, var, H_order, H, H_id, i - 1),
                    MatMul(Block(s.Cov, var.id, meas_var.id, var.size, meas_var.size),
                           Transpose(Block(H, 0, H_id[i], H.rows, meas_var.size)))))

RECURSIVE MaLoop(_, _, _, _, _)
MaLoop(s, H_order, H, H_id, k0) ==
  With(k0, LAMBDA k :
    IF k = 0 THEN Zero(s.Cov.rows, H.rows)
    ELSE With(s.types[s.variables[k]], LAMBDA var :
           SetBlock(MaLoop(s, H_order, H, H_id, k - 1), var.id, 0,
                    MiLoop(s, var, H_order, H, H_id, Len(H_order)))))

Ma(s0, H_order0, H0) ==
  With3(s0, H_order0, H0, LAMBDA s, H_order, H :
    With(OrderIds(s, H_order), LAMBDA H_id :
      MaLoop(s, H_order, H, H_id, Len(s.variables))))

\* S = H * P_small * H' + R, held in the upper triangle
ResidualCov(s, H_order, H0, R) ==
  With(H0, LAMBDA H :
    SelfadjointUpper(
      MatAdd(MatMul(MatMul(H, get_marginal_covariance(s, H_order)), Transpose(H)), R)))

\* K = M_a * Sinv, with Sinv the Cholesky solve of S * X = I
KalmanGain(M_a, S) == MatMul(M_a, SelfadjointUpper(Inverse(S)))

\* the upper triangle of Cov - K * M_a', reflected
UpdateCov(Cov, K, M_a) == SelfadjointUpper(MatSub(Cov, MatMul(K, Transpose(M_a))))

RECURSIVE UpdateValues(_, _, _, _)
UpdateValues(types, vars, dx, i0) ==
  With(i0, LAMBDA i :
    IF i = 0 THEN types
    ELSE With(UpdateValues(types, vars, dx, i - 1), LAMBDA t :
           update(t, vars[i], Block(dx, t[vars[i]].id, 0, t[vars[i]].size, 1))))

EKFUpdate(s0, H_order0, H0, res0, R0) ==
  With2(s0, H_order0, LAMBDA s, H_order :
    With3(H0, res0, R0, LAMBDA H, res, R :
      IF ~(res.rows = R.rows /\ H.rows = res.rows) THEN Abort(s)
      ELSE With(Ma(s, H_order, H), LAMBDA M_a :
             With(KalmanGain(M_a, ResidualCov(s, H_order, H, R)), LAMBDA K :
               With2(UpdateCov(s.Cov, K, M_a), MatMul(K, res), LAMBDA c, dx :
                 IF found_neg(c) THEN Abort([s EXCEPT !.Cov = c])
                 ELSE [s EXCEPT !.Cov = c,
                                !.types = UpdateValues(s.types, s.variables, dx,
                                                       Len(s.variables))])))))


(* ------------------------- initialize_invertible ------------------------ *)
\* the noise is isotropic: diagonal, and all diagonal entries the same
Isotropic(R0) ==
  \E R \in {R0} :
    \A r \in 0..(R.rows - 1), c \in 0..(R.cols - 1) :
      /\ (r = c => At(R, 0, 0) = At(R, r, c))
      /\ (r # c => At(R, r, c) = RZero)

\* the new block holds the measurement noise alone
InvertibleCovNoiseOnly(s, new_size, H_order, H_R, H_L, R) ==
  With2(Ma(s, H_order, H_R), Inverse(H_L), LAMBDA M_a, H_Linv :
    LET P_LL == MatMul(MatMul(H_Linv, R), Transpose(H_Linv))
        oldSize == s.Cov.rows
        c0 == ConservativeResize(s.Cov, oldSize + new_size, oldSize + new_size)
    IN  With(SetBlock(c0, 0, oldSize, MatNeg(MatMul(M_a, Transpose(H_Linv)))),
             LAMBDA c1 :
               SetBlock(SetBlock(c1, oldSize, 0,
                                 Transpose(Block(c1, 0, oldSize, oldSize, new_size))),
                        oldSize, oldSize, P_LL)))

InvertibleCov(s, new_size, H_order, H_R, H_L, R) ==
  With3(Ma(s, H_order, H_R), ResidualCov(s, H_order, H_R, R), Inverse(H_L),
        LAMBDA M_a, M, H_Linv :
    LET P_LL == MatMul(MatMul(H_Linv, M), Transpose(H_Linv))
        oldSize == s.Cov.rows
        c0 == ConservativeResize(s.Cov, oldSize + new_size, oldSize + new_size)
    IN  With(SetBlock(c0, 0, oldSize, MatNeg(MatMul(M_a, Transpose(H_Linv)))),
             LAMBDA c1 :
               SetBlock(SetBlock(c1, oldSize, 0,
                                 Transpose(Block(c1, 0, oldSize, oldSize, new_size))),
                        oldSize, oldSize, P_LL)))

initialize_invertible(s0, new_variable, H_order0, H_R0, H_L0, R0, res0) ==
  With2(s0, H_order0, LAMBDA s, H_order :
    With2(H_R0, H_L0, LAMBDA H_R, H_L :
      With2(R0, res0, LAMBDA R, res :
        IF InVariables(s, new_variable) THEN Abort(s)
        ELSE IF ~(R.rows = R.cols /\ R.rows > 0) THEN Abort(s)
        ELSE IF ~Isotropic(R) THEN Abort(s)
        ELSE IF ~(res.rows = R.rows /\ H_L.rows = res.rows /\ H_L.rows = H_R.rows)
        THEN Abort(s)
        ELSE IF ~(H_L.rows = H_L.cols /\ H_L.rows = s.types[new_variable].size)
        THEN Abort(s)
        ELSE LET oldSize == s.Cov.rows
                 c == InvertibleCov(s, s.types[new_variable].size, H_order, H_R, H_L, R)
                 t1 == update(s.types, new_variable, MatMul(Inverse(H_L), res))
                 t2 == set_local_id(t1, new_variable, oldSize)
             IN  [s EXCEPT !.Cov = c, !.types = t2,
                           !.variables = Append(s.variables, new_variable)])))

(* ------------------------- initialize ----------------------------------- *)
\* Eigen::JacobiRotation::makeGivens(p, q): <<c, s>>
makeGivens(p0, q0) ==
  With2(p0, q0, LAMBDA p, q :
    IF q = RZero THEN <<IF RLt(p, RZero) THEN RInt(-1) ELSE ROne, RZero>>
    ELSE IF p = RZero THEN <<RZero, IF RLt(q, RZero) THEN ROne ELSE RInt(-1)>>
    ELSE IF RLt(RAbs(q), RAbs(p))
    THEN With(RDiv(q, p), LAMBDA t :
           With(RSqrt(RAdd(ROne, RMul(t, t))), LAMBDA u0 :
             With(RDiv(ROne, IF RLt(p, RZero) THEN RNeg(u0) ELSE u0), LAMBDA c :
               <<c, RMul(RNeg(t), c)>>)))
    ELSE With(RDiv(p, q), LAMBDA t :
           With(RSqrt(RAdd(ROne, RMul(t, t))), LAMBDA u0 :
             With(RNeg(RDiv(ROne, IF RLt(q, RZero) THEN RNeg(u0) ELSE u0)), LAMBDA sn :
               <<RMul(RNeg(t), sn), sn>>))))

\* the square root of makeGivens is exact on (p, q)
GivensExact(p0, q0) ==
  \E p \in {p0}, q \in {q0} :
    \/ p = RZero
    \/ q = RZero
    \/ IsSquare(p[1] * p[1] * q[2] * q[2] + q[1] * q[1] * p[2] * p[2])

\* (M.block(m - 1, n, 2, M.cols - n)).applyOnTheLeft(0, 1, G.adjoint())
applyOnTheLeft(M0, m, n, G0) ==
  With2(M0, G0, LAMBDA M, G :
    Mat(M.rows, M.cols,
        LAMBDA i, j :
          IF j < n THEN At(M, i, j)
          ELSE IF i = m - 1
          THEN RSub(RMul(G[1], At(M, m - 1, j)), RMul(G[2], At(M, m, j)))
          ELSE IF i = m
          THEN RAdd(RMul(G[2], At(M, m - 1, j)), RMul(G[1], At(M, m, j)))
          ELSE At(M, i, j)))

\* the Givens QR of H_L, applied to H_L, res and H_R as well
RECURSIVE GivensLoop(_, _, _, _, _)
GivensLoop(H_L0, H_R0, res0, n0, m0) ==
  With3(H_L0, H_R0, res0, LAMBDA H_L, H_R, res :
    With2(n0, m0, LAMBDA n, m :
      IF n >= H_L.cols THEN [H_L |-> H_L, H_R |-> H_R, res |-> res]
      ELSE IF m <= n THEN GivensLoop(H_L, H_R, res, n + 1, H_L.rows - 1)
      ELSE With(makeGivens(At(H_L, m - 1, n), At(H_L, m, n)), LAMBDA G :
             GivensLoop(applyOnTheLeft(H_L, m, n, G), applyOnTheLeft(H_R, m, 0, G),
                        applyOnTheLeft(res, m, 0, G), n, m - 1))))

RECURSIVE GivensLoopExact(_, _, _, _, _)
GivensLoopExact(H_L0, H_R0, res0, n0, m0) ==
  \E H_L \in {H_L0}, H_R \in {H_R0}, res \in {res0}, n \in {n0}, m \in {m0} :
    IF n >= H_L.cols THEN TRUE
    ELSE IF m <= n THEN GivensLoopExact(H_L, H_R, res, n + 1, H_L.rows - 1)
    ELSE /\ GivensExact(At(H_L, m - 1, n), At(H_L, m, n))
         /\ \E G \in {makeGivens(At(H_L, m - 1, n), At(H_L, m, n))} :
              GivensLoopExact(applyOnTheLeft(H_L, m, n, G), applyOnTheLeft(H_R, m, 0, G),
                              applyOnTheLeft(res, m, 0, G), n, m - 1)

\* boost::math::quantile(chi_squared(dof), 0.95), to four decimals
chi2_check(dof) ==
  IF dof = 1 THEN Rat(38415, 10000)
  ELSE IF dof = 2 THEN Rat(59915, 10000)
  ELSE IF dof = 3 THEN Rat(78147, 10000)
  ELSE Rat(94877, 10000)

\* the separated system and the Mahalanobis distance of its updating part
Separate(s, new_var_size, H_order, H_R, H_L, R, res) ==
  With(GivensLoop(H_L, H_R, res, 0, H_L.rows - 1), LAMBDA g :
    With3(Block(g.H_R, new_var_size, 0, g.H_R.rows - new_var_size, g.H_R.cols),
          Block(g.res, new_var_size, 0, g.H_R.rows - new_var_size, 1),
          Block(R, new_var_size, new_var_size,
                g.H_R.rows - new_var_size, g.H_R.rows - new_var_size),
          LAMBDA Hup, resup, Rup :
      With(MatAdd(MatMul(MatMul(Hup, get_marginal_covariance(s, H_order)),
                         Transpose(Hup)), Rup),
           LAMBDA S :
        [Hxinit |-> Block(g.H_R, 0, 0, new_var_size, g.H_R.cols),
         H_finit |-> Block(g.H_L, 0, 0, new_var_size, new_var_size),
         resinit |-> Block(g.res, 0, 0, new_var_size, 1),
         Rinit |-> Block(R, 0, 0, new_var_size, new_var_size),
         Hup |-> Hup, resup |-> resup, Rup |-> Rup, S |-> S,
         chi2 |-> At(MatMul(Transpose(resup), MatMul(Inverse(S), resup)), 0, 0)])))

\* the new variable is put into the state before the gate is looked at
initializeBeforeGate(s0, new_variable, H_order0, H_R0, H_L0, R0, res0, chi_2_mult) ==
  With2(s0, H_order0, LAMBDA s, H_order :
    With2(H_R0, H_L0, LAMBDA H_R, H_L :
      With2(R0, res0, LAMBDA R, res :
        IF InVariables(s, new_variable) THEN [st |-> Abort(s), ret |-> FALSE]
        ELSE IF ~(R.rows = R.cols /\ R.rows > 0) THEN [st |-> Abort(s), ret |-> FALSE]
        ELSE IF ~Isotropic(R) THEN [st |-> Abort(s), ret |-> FALSE]
        ELSE IF s.types[new_variable].size # H_L.cols
        THEN [st |-> Abort(s), ret |-> FALSE]
        ELSE IF ~(R.rows = H_R.rows /\ H_R.cols = OrderSize(s, H_order))
        THEN [st |-> Abort(s), ret |-> FALSE]
        ELSE With(Separate(s, s.types[new_variable].size, H_order, H_R, H_L, R, res),
                  LAMBDA q :
               With(initialize_invertible(s, new_variable, H_order, q.Hxinit,
                                          q.H_finit, q.Rinit, q.resinit),
                    LAMBDA s1 :
                 IF RLt(RMul(chi_2_mult, chi2_check(res.rows)), q.chi2)
                 THEN [st |-> s1, ret |-> FALSE]
                 ELSE [st |-> IF s1.ok /\ q.Hup.rows > 0
                              THEN EKFUpdate(s1, H_order, q.Hup, q.resup, q.Rup)
                              ELSE s1,
                       ret |-> TRUE])))))

\* returns the state and the boolean result (field ret)
initialize(s0, new_variable, H_order0, H_R0, H_L0, R0, res0, chi_2_mult) ==
  With2(s0, H_order0, LAMBDA s, H_order :
    With2(H_R0, H_L0, LAMBDA H_R, H_L :
      With2(R0, res0, LAMBDA R, res :
        IF InVariables(s, new_variable) THEN [st |-> Abort(s), ret |-> FALSE]
        ELSE IF ~(R.rows = R.cols /\ R.rows > 0) THEN [st |-> Abort(s), ret |-> FALSE]
        ELSE IF ~Isotropic(R) THEN [st |-> Abort(s), ret |-> FALSE]
        ELSE IF s.types[new_variable].size # H_L.cols
        THEN [st |-> Abort(s), ret |-> FALSE]
        ELSE IF ~(R.rows = H_R.rows /\ H_R.cols = OrderSize(s, H_order))
        THEN [st |-> Abort(s), ret |-> FALSE]
        ELSE With(Separate(s, s.types[new_variable].size, H_order, H_R, H_L, R, res),
                  LAMBDA q :
               IF RLt(RMul(chi_2_mult, chi2_check(res.rows)), q.chi2)
               THEN [st |-> s, ret |-> FALSE]
               ELSE With(initialize_invertible(s, new_variable, H_order, q.Hxinit,
                                               q.H_finit, q.Rinit, q.resinit),
                         LAMBDA s1 :
                      [st |-> IF s1.ok /\ q.Hup.rows > 0
                              THEN EKFUpdate(s1, H_order, q.Hup, q.resup, q.Rup)
                              ELSE s1,
                       ret |-> TRUE])))))

(* ------------------------- augment_clone -------------------------------- *)
\* only the columns of the clone receive the time-offset term
AugmentCovColumnsOnly(Cov0, pose_id, pose_size, dt_id, dnc_dt0) ==
  With2(Cov0, dnc_dt0, LAMBDA Cov, dnc_dt :
    SetBlock(Cov, 0, pose_id,
             MatAdd(Block(Cov, 0, pose_id, Cov.rows, pose_size),
                    MatMul(Block(Cov, 0, dt_id, Cov.rows, 1), Transpose(dnc_dt)))))

AugmentCov(Cov0, pose_id, pose_size, dt_id, dnc_dt0) ==
  With2(Cov0, dnc_dt0, LAMBDA Cov, dnc_dt :
    With(SetBlock(Cov, 0, pose_id,
                  MatAdd(Block(Cov, 0, pose_id, Cov.rows, pose_size),
                         MatMul(Block(Cov, 0, dt_id, Cov.rows, 1), Transpose(dnc_dt)))),
         LAMBDA c1 :
           SetBlock(c1, pose_id, 0,
                    MatAdd(Block(c1, pose_id, 0, pose_size, Cov.rows),
                           MatMul(dnc_dt, Block(c1, dt_id, 0, 1, Cov.rows))))))

augment_clone(s0, last_w) ==
  With(s0, LAMBDA s :
    IF s.timestamp \in DOMAIN s.clones_IMU THEN Abort(s)
    ELSE With(clone(s, POSE), LAMBDA r :
           IF ~r.st.ok THEN r.st
           ELSE IF r.st.types[r.new_clone].kind # "PoseJPL" THEN Abort(r.st)
           ELSE With([r.st EXCEPT !.clones_IMU =
                        MapPut(r.st.clones_IMU, r.st.timestamp, r.new_clone)],
                     LAMBDA s2 :
                  LET pose == r.new_clone
                      dnc_dt == Mat(2, 1, LAMBDA i, j : IF i = 0 THEN last_w
                                                        ELSE s2.types[VEL].value[1])
                  IN  IF s2.options.do_calib_camera_timeoffset
                      THEN [s2 EXCEPT !.Cov = AugmentCov(s2.Cov, s2.types[pose].id,
                                                         s2.types[pose].size,
                                                         s2.types[DT].id, dnc_dt)]
                      ELSE s2)))

(* ------------------------- marginalize_old_clone / marginalize_slam ----- *)
\* State::margtimestep: the oldest clone time
margtimestep(s) ==
  CHOOSE t \in DOMAIN s.clones_IMU : \A u \in DOMAIN s.clones_IMU : t <= u

\* one clone too many is let through
NeedsMargLate(s) == Cardinality(DOMAIN s.clones_IMU) > s.options.max_clone_size + 1

NeedsMarg(s) == Cardinality(DOMAIN s.clones_IMU) > s.options.max_clone_size

marginalize_old_clone(s0) ==
  With(s0, LAMBDA s :
    IF NeedsMarg(s)
    THEN With(margtimestep(s), LAMBDA marginal_time :
           With(marginalize(s, s.clones_IMU[marginal_time]), LAMBDA s1 :
             IF ~s1.ok THEN s1
             ELSE [s1 EXCEPT !.clones_IMU = MapErase(s1.clones_IMU, marginal_time)]))
    ELSE s)

\* the last aruco id is not protected
SlamSelectedInclusive(s, featid) ==
  /\ s.types[s.features_SLAM[featid]].should_marg
  /\ featid >= 4 * s.options.max_aruco_features

\* the test that selects a SLAM feature for marginalization
SlamSelected(s, featid) ==
  /\ s.types[s.features_SLAM[featid]].should_marg
  /\ featid > 4 * s.options.max_aruco_features

\* the while loop over _features_SLAM; keys holds the entries not yet visited
RECURSIVE SlamLoop(_, _)
SlamLoop(s0, keys0) ==
  With2(s0, keys0, LAMBDA s, keys :
    IF keys = {} \/ ~s.ok THEN s
    ELSE With(CHOOSE k \in keys : \A j \in keys : k <= j, LAMBDA it0 :
           IF SlamSelected(s, it0)
           THEN With(marginalize(s, s.features_SLAM[it0]), LAMBDA s1 :
                  IF ~s1.ok THEN s1
                  ELSE SlamLoop([s1 EXCEPT !.features_SLAM =
                                   MapErase(s1.features_SLAM, it0)],
                                keys \ {it0}))
           ELSE SlamLoop(s, keys \ {it0})))

marginalize_slam(s) == SlamLoop(s, DOMAIN s.features_SLAM)


(* ------------------------- the estimator and its collaborators ---------- *)
VARIABLES
  state,        \* the State object and the Type objects it shares
  mutex_state,  \* state->_mutex_state: "free", or "reader" while a reader iterates
  call,         \* the operation that ran last, with its arguments
  ret,          \* what it returned
  steps,        \* number of calls made since the starting state
  twin          \* a second State object, given the same calls but never a clone

vars == <<state, mutex_state, call, ret, steps, twin>>

Void == [kind |-> "void"]
HasFresh == \E h \in CloneHandles : state.types[h].kind = "none"

\* the SLAM manager makes a new Landmark object for every initialization
HasFreshLandmark == \E h \in Landmarks : state.types[h].kind = "none"
FreshLandmark ==
  CHOOSE h \in Landmarks :
    /\ state.types[h].kind = "none"
    /\ \A g \in Landmarks : state.types[g].kind = "none" => h <= g
WithLandmark(s, h) == [s EXCEPT !.types[h] = NewObject("Landmark", 1)]

\* Landmark::_featid: the first landmark carries the last aruco id
FeatId(s, h) == 4 * s.options.max_aruco_features + (h - 5)

(* Starting states: the constructed State, and two states the estimator is *)
(* in after the call sequences written out below.                           *)
DenseCov3 == IntMat(<<<<4, 1, 0>>, <<1, 3, 1>>, <<0, 1, 2>>>>)
DenseCov4 == IntMat(<<<<4, 1, 0, 1>>, <<1, 3, 1, 0>>, <<0, 1, 2, 1>>, <<1, 0, 1, 2>>>>)

\* one clone in the window, time offset calibrated, the next frame begun
StateWithClone ==
  LET s0 == set_initial_covariance(InitState(TRUE), DenseCov4, <<IMU, DT>>)
      s1 == EKFUpdate(s0, <<VEL>>, IntMat(<<<<1>>>>), IntMat(<<<<3>>>>), IntMat(<<<<1>>>>))
  IN  With(augment_clone(s1, ROne), LAMBDA s2 : [s2 EXCEPT !.timestamp = 1])

\* three SLAM features, the first two flagged for marginalization
StateWithSlam ==
  LET s0 == set_initial_covariance(InitState(FALSE), DenseCov3, <<IMU>>)
      s1 == initialize_invertible(WithLandmark(s0, 5), 5, <<VEL>>, IntMat(<<<<1>>>>),
                                  IntMat(<<<<1>>>>), IntMat(<<<<2>>>>), IntMat(<<<<1>>>>))
      s2 == initialize_invertible(WithLandmark(s1, 6), 6, <<POSE>>, IntMat(<<<<1, 1>>>>),
                                  IntMat(<<<<2>>>>), IntMat(<<<<1>>>>), IntMat(<<<<2>>>>))
      s3 == initialize_invertible(WithLandmark(s2, 7), 7, <<5>>, IntMat(<<<<1>>>>),
                                  IntMat(<<<<1>>>>), IntMat(<<<<1>>>>), IntMat(<<<<0>>>>))
  IN  With(s3, LAMBDA s :
        [s EXCEPT !.features_SLAM =
                     [f \in {FeatId(s, 5), FeatId(s, 6), FeatId(s, 7)} |->
                        CHOOSE h \in 5..7 : FeatId(s, h) = f],
                  !.types[5].should_marg = TRUE,
                  !.types[6].should_marg = TRUE])

Init ==
  /\ state \in {InitState(FALSE), InitState(TRUE), StateWithClone, StateWithSlam}
  /\ mutex_state = "free"
  /\ call = [op |-> "State"]
  /\ ret = Void
  /\ steps = 0
  /\ twin = state

Ready == state.ok /\ steps < MaxSteps

\* what the IMU integrator hands to propagate
PropagateInputs ==
  { [order_NEW |-> <<IMU>>, order_OLD |-> <<IMU>>, Phi |-> Identity(3), Q |-> Zero(3, 3)],
    [order_NEW |-> <<IMU>>, order_OLD |-> <<IMU>>,
     Phi |-> IntMat(<<<<1, 0, 0>>, <<0, 1, 1>>, <<0, 0, 1>>>>),
     Q |-> IntMat(<<<<0, 0, 0>>, <<0, 1, 1>>, <<0, 7, 1>>>>)],
    [order_NEW |-> <<VEL>>, order_OLD |-> <<VEL, POSE>>, Phi |-> IntMat(<<<<1, 1, 0>>>>),
     Q |-> IntMat(<<<<1>>>>)],
    [order_NEW |-> <<IMU>>, order_OLD |-> <<IMU>>, Phi |-> Identity(3),
     Q |-> IntMat(<<<<0, 0, 0>>, <<0, 0, 0>>, <<0, 0, -9>>>>)],
    [order_NEW |-> <<POSE>>, order_OLD |-> <<POSE>>, Phi |-> Identity(2), Q |-> Zero(2, 2)],
    [order_NEW |-> <<>>, order_OLD |-> <<IMU>>, Phi |-> Identity(3), Q |-> Zero(3, 3)],
    [order_NEW |-> <<IMU>>, order_OLD |-> <<>>, Phi |-> Identity(3), Q |-> Zero(3, 3)],
    [order_NEW |-> <<VEL, POSE>>, order_OLD |-> <<IMU>>, Phi |-> Identity(3),
     Q |-> Zero(3, 3)] }

Propagate ==
  \E in \in PropagateInputs :
    /\ Ready
    /\ Attached(state, in.order_NEW) /\ Attached(state, in.order_OLD)
    /\ state' = EKFPropagation(state, in.order_NEW, in.order_OLD, in.Phi, in.Q)
    /\ call' = [op |-> "propagate", args |-> in]
    /\ ret' = Void
    /\ steps' = steps + 1
    /\ UNCHANGED <<mutex_state, twin>>

\* the variable appended last, when it is a clone or a landmark
LastAdded ==
  IF Len(state.variables) > 0 /\ state.variables[Len(state.variables)] \notin {IMU, DT}
  THEN {state.variables[Len(state.variables)]} ELSE {}

\* what the measurement builders hand to update
UpdateInputs ==
  { [H_order |-> <<POSE>>, H |-> IntMat(<<<<1, 0>>>>), res |-> IntMat(<<<<2>>>>),
     R |-> IntMat(<<<<1>>>>)],
    [H_order |-> <<VEL, POSE>>, H |-> IntMat(<<<<1, 0, 0>>, <<0, 0, 1>>>>),
     res |-> IntMat(<<<<1>>, <<0>>>>), R |-> Identity(2)] }
  \cup { [H_order |-> <<h, VEL>>, H |-> Mat(1, state.types[h].size + 1, LAMBDA i, j : ROne),
          res |-> IntMat(<<<<1>>>>), R |-> IntMat(<<<<1>>>>)] : h \in LastAdded }

Update ==
  \E in \in UpdateInputs :
    /\ Ready
    /\ Attached(state, in.H_order)
    /\ PositiveDefinite(ResidualCov(state, in.H_order, in.H, in.R))
    /\ state' = EKFUpdate(state, in.H_order, in.H, in.res, in.R)
    /\ call' = [op |-> "update", args |-> in]
    /\ ret' = Void
    /\ steps' = steps + 1
    /\ UNCHANGED <<mutex_state, twin>>

\* a symmetric matrix with distinct entries above the diagonal
SymmetricInput(n) ==
  Mat(n, n, LAMBDA i, j : RInt(IF i = j THEN 10 + i ELSE 1 + i + j + i * j))

\* what the initializer hands to set_initial_covariance: sorted and unsorted
\* orders, a sub-variable listed with its parent, an order with a gap
SetInitialInputs ==
  { [order |-> <<POSE>>, covariance |-> IntMat(<<<<4, 0>>, <<0, 1>>>>)],
    [order |-> <<VEL, POSE>>,
     covariance |-> IntMat(<<<<2, 1, 0>>, <<1, 3, 1>>, <<5, 0, 2>>>>)],
    [order |-> <<VEL, POSE>>, covariance |-> SymmetricInput(3)],
    [order |-> <<POSE, IMU>>, covariance |-> SymmetricInput(5)],
    [order |-> <<VEL>>, covariance |-> IntMat(<<<<-1>>>>)] }
  \cup { [order |-> <<h, POSE>>, covariance |-> SymmetricInput(state.types[h].size + 2)] :
           h \in LastAdded }

SetInitialCovariance ==
  \E in \in SetInitialInputs :
    /\ Ready
    /\ Attached(state, in.order)
    /\ state' = set_initial_covariance(state, in.covariance, in.order)
    /\ call' = [op |-> "set_initial_covariance", args |-> in]
    /\ ret' = Void
    /\ steps' = steps + 1
    /\ UNCHANGED <<mutex_state, twin>>

GetMarginalInputs ==
  {<<VEL, POSE>>, <<POSE>>, <<POSE, IMU>>} \cup {<<h, POSE>> : h \in LastAdded}

GetMarginalCovariance ==
  \E small_variables \in GetMarginalInputs :
    /\ Ready
    /\ Attached(state, small_variables)
    /\ ret' = [kind |-> "matrix", m |-> get_marginal_covariance(state, small_variables)]
    /\ call' = [op |-> "get_marginal_covariance", args |-> small_variables]
    /\ steps' = steps + 1
    /\ UNCHANGED <<state, mutex_state, twin>>

GetFullCovariance ==
  /\ Ready
  /\ ret' = [kind |-> "matrix", m |-> get_full_covariance(state)]
  /\ call' = [op |-> "get_full_covariance"]
  /\ steps' = steps + 1
  /\ UNCHANGED <<state, mutex_state, twin>>

\* a sub-variable, a sub-variable of another size, a top-level variable, and
\* (when the time offset is not calibrated) a variable that is not in the state
Clone ==
  \E variable_to_clone \in {POSE, VEL, DT} \cup LastAdded :
    /\ Ready /\ HasFresh
    /\ \E r \in {clone(state, variable_to_clone)} :
          /\ state' = r.st
          /\ ret' = [kind |-> "handle", h |-> r.new_clone]
    /\ call' = [op |-> "clone", args |-> variable_to_clone]
    /\ steps' = steps + 1
    /\ UNCHANGED <<mutex_state, twin>>

\* every variable of the state, and a sub-variable
Marginalize ==
  \E marg \in {state.variables[k] : k \in 1..Len(state.variables)} \cup {POSE} :
    /\ Ready
    /\ state' = marginalize(state, marg)
    /\ call' = [op |-> "marginalize", args |-> marg]
    /\ ret' = Void
    /\ steps' = steps + 1
    /\ UNCHANGED <<mutex_state, twin>>

AugmentClone ==
  \E last_w \in {ROne} :
    /\ Ready /\ HasFresh
    /\ state.options.do_calib_camera_timeoffset => state.types[DT].id >= 0
    /\ state' = augment_clone(state, last_w)
    /\ call' = [op |-> "augment_clone", args |-> last_w]
    /\ ret' = Void
    /\ steps' = steps + 1
    /\ UNCHANGED <<mutex_state, twin>>

\* the lock_guard is taken only when a clone has to go; it waits for a reader
MarginalizeOldClone ==
  /\ Ready
  /\ NeedsMarg(state) => mutex_state = "free"
  /\ state' = marginalize_old_clone(state)
  /\ call' = [op |-> "marginalize_old_clone"]
  /\ ret' = Void
  /\ steps' = steps + 1
  /\ UNCHANGED <<mutex_state, twin>>

\* marginalize_slam takes no lock
MarginalizeSlam ==
  /\ Ready
  /\ state' = marginalize_slam(state)
  /\ call' = [op |-> "marginalize_slam"]
  /\ ret' = Void
  /\ steps' = steps + 1
  /\ UNCHANGED <<mutex_state, twin>>

\* what the measurement builders hand to the delayed initialization
InitializeInputs ==
  { [H_order |-> <<POSE>>, H_R |-> Identity(2), H_L |-> IntMat(<<<<1>>, <<0>>>>),
     R |-> Identity(2), res |-> IntMat(<<<<1>>, <<0>>>>), chi_2_mult |-> ROne],
    [H_order |-> <<POSE>>, H_R |-> Identity(2), H_L |-> IntMat(<<<<1>>, <<0>>>>),
     R |-> Identity(2), res |-> IntMat(<<<<0>>, <<10>>>>), chi_2_mult |-> ROne],
    [H_order |-> <<VEL>>, H_R |-> IntMat(<<<<1>>, <<2>>>>), H_L |-> IntMat(<<<<4>>, <<3>>>>),
     R |-> Identity(2), res |-> IntMat(<<<<5>>, <<0>>>>), chi_2_mult |-> ROne],
    [H_order |-> <<VEL>>, H_R |-> IntMat(<<<<1>>, <<2>>>>), H_L |-> IntMat(<<<<4>>, <<3>>>>),
     R |-> IntMat(<<<<1, 0>>, <<0, 2>>>>), res |-> IntMat(<<<<5>>, <<0>>>>),
     chi_2_mult |-> ROne],
    [H_order |-> <<VEL>>, H_R |-> IntMat(<<<<1>>>>), H_L |-> IntMat(<<<<1>>>>),
     R |-> IntMat(<<<<2>>>>), res |-> IntMat(<<<<1>>>>), chi_2_mult |-> ROne] }

\* the inputs the exact arithmetic covers: exact rotations, a Cholesky
\* factorization that exists, an invertible triangular H_L
InitializeExact(s, new_variable, in) ==
  /\ GivensLoopExact(in.H_L, in.H_R, in.res, 0, in.H_L.rows - 1)
  /\ \E q \in {Separate(s, s.types[new_variable].size, in.H_order, in.H_R, in.H_L,
                         in.R, in.res)} :
       /\ PositiveDefinite(SelfadjointUpper(q.S))
       /\ Det(q.H_finit) # RZero

Initialize ==
  \E in \in InitializeInputs :
    /\ Ready /\ HasFreshLandmark
    /\ Attached(state, in.H_order)
    /\ \E new_variable \in {FreshLandmark} :
         \E s \in {WithLandmark(state, new_variable)} :
           /\ InitializeExact(s, new_variable, in)
           /\ \E r \in {initialize(s, new_variable, in.H_order, in.H_R, in.H_L,
                                    in.R, in.res, in.chi_2_mult)} :
                /\ state' = r.st
                /\ ret' = [kind |-> "bool", b |-> r.ret]
           /\ call' = [op |-> "initialize", new_variable |-> new_variable, args |-> in]
    /\ steps' = steps + 1
    /\ UNCHANGED <<mutex_state, twin>>

InvertibleInputs ==
  { [H_order |-> <<VEL>>, H_R |-> IntMat(<<<<1>>>>), H_L |-> IntMat(<<<<1>>>>),
     R |-> IntMat(<<<<2>>>>), res |-> IntMat(<<<<1>>>>)],
    [H_order |-> <<VEL, POSE>>, H_R |-> IntMat(<<<<2, 1, 0>>>>), H_L |-> IntMat(<<<<1>>>>),
     R |-> IntMat(<<<<3>>>>), res |-> IntMat(<<<<1>>>>)],
    [H_order |-> <<VEL>>, H_R |-> IntMat(<<<<0>>>>), H_L |-> IntMat(<<<<1>>>>),
     R |-> IntMat(<<<<2>>>>), res |-> IntMat(<<<<1>>>>)],
    [H_order |-> <<VEL, POSE>>, H_R |-> IntMat(<<<<1, 0, 1>>>>), H_L |-> IntMat(<<<<2>>>>),
     R |-> IntMat(<<<<1>>>>), res |-> IntMat(<<<<2>>>>)] }

InitializeInvertible ==
  \E in \in InvertibleInputs :
    /\ Ready /\ HasFreshLandmark
    /\ Attached(state, in.H_order)
    /\ Det(in.H_L) # RZero
    /\ \E new_variable \in {FreshLandmark} :
         /\ state' = initialize_invertible(WithLandmark(state, new_variable), new_variable,
                                           in.H_order, in.H_R, in.H_L, in.R, in.res)
         /\ call' = [op |-> "initialize_invertible", new_variable |-> new_variable,
                     args |-> in]
    /\ ret' = Void
    /\ steps' = steps + 1
    /\ UNCHANGED <<mutex_state, twin>>

\* the propagator moves state->_timestamp forward
SetTimestamp ==
  /\ Ready
  /\ state' = [state EXCEPT !.timestamp = state.timestamp + 1]
  /\ call' = [op |-> "set_timestamp"]
  /\ ret' = Void
  /\ steps' = steps + 1
  /\ UNCHANGED <<mutex_state, twin>>

MapValues(m) == { m[k] : k \in DOMAIN m }

\* the SLAM manager files an initialized landmark under its feature id
RegisterSlam ==
  \E h \in Landmarks :
    /\ Ready
    /\ state.types[h].id >= 0
    /\ h \notin MapValues(state.features_SLAM)
    /\ state' = [state EXCEPT !.features_SLAM =
                                 MapPut(state.features_SLAM, FeatId(state, h), h)]
    /\ call' = [op |-> "register_slam", args |-> h]
    /\ ret' = Void
    /\ steps' = steps + 1
    /\ UNCHANGED <<mutex_state, twin>>

\* the SLAM manager flags a feature for marginalization
SetShouldMarg ==
  \E featid \in DOMAIN state.features_SLAM :
    /\ Ready
    /\ ~state.types[state.features_SLAM[featid]].should_marg
    /\ state' = [state EXCEPT !.types[state.features_SLAM[featid]].should_marg = TRUE]
    /\ call' = [op |-> "set_should_marg", args |-> featid]
    /\ ret' = Void
    /\ steps' = steps + 1
    /\ UNCHANGED <<mutex_state, twin>>

\* an external reader iterates the clone and feature maps under the mutex
ReaderLock ==
  /\ Ready /\ mutex_state = "free"
  /\ mutex_state' = "reader"
  /\ call' = [op |-> "reader_lock"]
  /\ ret' = Void
  /\ steps' = steps + 1
  /\ UNCHANGED <<state, twin>>

ReaderUnlock ==
  /\ Ready /\ mutex_state = "reader"
  /\ mutex_state' = "free"
  /\ call' = [op |-> "reader_unlock"]
  /\ ret' = Void
  /\ steps' = steps + 1
  /\ UNCHANGED <<state, twin>>

Next ==
  \/ Propagate
  \/ Update
  \/ SetInitialCovariance
  \/ GetMarginalCovariance
  \/ GetFullCovariance
  \/ Clone
  \/ Marginalize
  \/ AugmentClone
  \/ MarginalizeOldClone
  \/ MarginalizeSlam
  \/ Initialize
  \/ InitializeInvertible
  \/ SetTimestamp
  \/ RegisterSlam
  \/ SetShouldMarg
  \/ ReaderLock
  \/ ReaderUnlock

Spec == Init /\ [][Next]_vars

(* ------------------------- the clone scheduler -------------------------- *)
(* At every camera frame the propagator brings the state to the image time, *)
(* the pose is cloned under that time and the window is trimmed.            *)
FramePropagate ==
  \E in \in PropagateInputs :
    /\ state.ok /\ HasFresh
    /\ call.op \in {"State", "marginalize_old_clone"}
    /\ Attached(state, in.order_NEW) /\ Attached(state, in.order_OLD)
    /\ \E s \in {EKFPropagation(state, in.order_NEW, in.order_OLD, in.Phi, in.Q)} :
         state' = [s EXCEPT !.timestamp = s.timestamp + 1]
    /\ call' = [op |-> "propagate", args |-> in]
    /\ ret' = Void
    /\ steps' = steps + 1
    /\ UNCHANGED <<mutex_state, twin>>

FrameAugmentClone ==
  \E last_w \in {RZero, ROne} :
    /\ state.ok /\ HasFresh
    /\ call.op = "propagate"
    /\ state.options.do_calib_camera_timeoffset => state.types[DT].id >= 0
    /\ state' = augment_clone(state, last_w)
    /\ call' = [op |-> "augment_clone", args |-> last_w]
    /\ ret' = Void
    /\ steps' = steps + 1
    /\ UNCHANGED <<mutex_state, twin>>

FrameMarginalizeOldClone ==
  /\ state.ok
  /\ call.op = "augment_clone"
  /\ NeedsMarg(state) => mutex_state = "free"
  /\ state' = marginalize_old_clone(state)
  /\ call' = [op |-> "marginalize_old_clone"]
  /\ ret' = Void
  /\ steps' = steps + 1
  /\ UNCHANGED <<mutex_state, twin>>

SchedNext ==
  \/ FramePropagate
  \/ FrameAugmentClone
  \/ FrameMarginalizeOldClone

SchedSpec == Init /\ [][SchedNext]_vars

(* ------------------------- the window operations ------------------------ *)
(* The calls the estimator makes between frames, in any order: propagate,   *)
(* update, augment_clone and the two marginalizations, with the propagator  *)
(* moving the state time and the SLAM manager flagging features.            *)
WindowNext ==
  \/ Propagate
  \/ Update
  \/ AugmentClone
  \/ MarginalizeOldClone
  \/ MarginalizeSlam
  \/ SetTimestamp
  \/ SetShouldMarg

WindowSpec == Init /\ [][WindowNext]_vars

(* ------------------------- two estimators ------------------------------ *)
(* One estimator clones a variable, both are given the same propagate and   *)
(* update calls, none of which lists the clone, and the first estimator     *)
(* marginalizes the clone at the end.                                       *)
Mentions(order, h) == \E i \in 1..Len(order) : order[i] = h

TwinClone ==
  \E variable_to_clone \in {POSE, VEL, DT} :
    /\ state.ok /\ HasFresh /\ call.op = "State"
    /\ state.types[variable_to_clone].id >= 0
    /\ \E r \in {clone(state, variable_to_clone)} :
          /\ state' = r.st
          /\ ret' = [kind |-> "handle", h |-> r.new_clone]
          /\ call' = [op |-> "clone", args |-> variable_to_clone, new_clone |-> r.new_clone]
    /\ UNCHANGED <<mutex_state, steps, twin>>

TwinPropagate ==
  \E in \in PropagateInputs :
    /\ Ready /\ twin.ok /\ call.op \in {"clone", "propagate", "update"}
    /\ Attached(state, in.order_NEW) /\ Attached(state, in.order_OLD)
    /\ ~Mentions(in.order_NEW, call.new_clone) /\ ~Mentions(in.order_OLD, call.new_clone)
    /\ state' = EKFPropagation(state, in.order_NEW, in.order_OLD, in.Phi, in.Q)
    /\ twin' = EKFPropagation(twin, in.order_NEW, in.order_OLD, in.Phi, in.Q)
    /\ call' = [op |-> "propagate", args |-> in, new_clone |-> call.new_clone]
    /\ ret' = Void
    /\ steps' = steps + 1
    /\ UNCHANGED mutex_state

TwinUpdate ==
  \E in \in UpdateInputs :
    /\ Ready /\ twin.ok /\ call.op \in {"clone", "propagate", "update"}
    /\ Attached(state, in.H_order)
    /\ ~Mentions(in.H_order, call.new_clone)
    /\ PositiveDefinite(ResidualCov(state, in.H_order, in.H, in.R))
    /\ state' = EKFUpdate(state, in.H_order, in.H, in.res, in.R)
    /\ twin' = EKFUpdate(twin, in.H_order, in.H, in.res, in.R)
    /\ call' = [op |-> "update", args |-> in, new_clone |-> call.new_clone]
    /\ ret' = Void
    /\ steps' = steps + 1
    /\ UNCHANGED mutex_state

TwinMarginalize ==
  /\ state.ok /\ call.op \in {"clone", "propagate", "update"}
  /\ state' = marginalize(state, call.new_clone)
  /\ call' = [op |-> "marginalize", args |-> call.new_clone, after |-> call.op]
  /\ ret' = Void
  /\ UNCHANGED <<mutex_state, steps, twin>>

TwinNext ==
  \/ TwinClone
  \/ TwinPropagate
  \/ TwinUpdate
  \/ TwinMarginalize

TwinSpec == Init /\ [][TwinNext]_vars

(* ------------------------- properties ----------------------------------- *)
\* the variables are laid out back to back from 0 and fill the side of Cov
Layout(s) ==
  /\ Len(s.variables) > 0 => s.types[s.variables[1]].id = 0
  /\ \A k \in 1..(Len(s.variables) - 1) :
       s.types[s.variables[k + 1]].id
         = s.types[s.variables[k]].id + s.types[s.variables[k]].size
  /\ OrderSize(s, s.variables) = s.Cov.rows
  /\ s.Cov.rows = s.Cov.cols

\* C1: in every state the operations reach, the first variable has id 0,
\* adjacent ids concatenate and the sizes sum to the side of Cov.
C1_Layout == state.ok => Layout(state)

\* a variable in the middle of three has been marginalized
C1_Witness ==
  /\ state.ok /\ call.op = "marginalize"
  /\ Len(state.variables) >= 2
  /\ state.types[state.variables[Len(state.variables)]].id > 0
  /\ call.args # IMU

\* C2: after every operation that returns, Cov equals its transpose.
C2_Symmetry == state.ok => IsSymmetric(state.Cov)

\* augment_clone has returned with the time offset calibrated
C2_Witness ==
  /\ state.ok /\ call.op = "augment_clone"
  /\ state.options.do_calib_camera_timeoffset
  /\ \E i \in 0..(state.Cov.rows - 1) :
       At(state.Cov, i, state.Cov.rows - 1) # RZero /\ i < 3

\* the operations C3 lists
PublicOps ==
  {"propagate", "update", "set_initial_covariance", "clone", "augment_clone",
   "marginalize", "marginalize_old_clone", "marginalize_slam", "initialize",
   "initialize_invertible"}

\* C3 as stated: after every public operation that returns, no diagonal
\* entry of Cov is negative.
C3_Stated == (state.ok /\ call.op \in PublicOps) => NonNegDiag(state.Cov)

\* C3: propagate and update return only with a diagonal without negative
\* entries, a negative entry being the abort; clone, marginalize,
\* marginalize_old_clone and marginalize_slam keep a diagonal without negative
\* entries so.
C3_NonNegativity ==
  [][/\ (call'.op \in {"propagate", "update"} /\ state'.ok)
          => NonNegDiag(state'.Cov)
     /\ (call'.op \in {"clone", "marginalize", "marginalize_old_clone",
                        "marginalize_slam"}
          /\ state'.ok /\ NonNegDiag(state.Cov))
          => NonNegDiag(state'.Cov)]_vars

\* propagate has aborted on a negative diagonal entry it wrote
C3_Witness ==
  /\ ~state.ok /\ call.op = "propagate"
  /\ ~NonNegDiag(state.Cov)

\* C4: clone(v) on a state of side N returns v' with id N and the size and
\* value of v, the blocks of v' equal those of v, and the old N x N block,
\* the old objects and the old variables stay as they were.
C4_CloneEquivalence ==
  [][(call'.op = "clone" /\ state'.ok) =>
       LET v == state.types[call'.args]
           N == state.Cov.rows
           h == ret'.h
           w == state'.types[h]
           C == state'.Cov
       IN  /\ w.id = N /\ w.size = v.size /\ w.value = v.value
           /\ C.rows = N + v.size /\ C.cols = N + v.size
           /\ \A i, j \in 0..(v.size - 1) :
                /\ At(C, N + i, N + j) = At(C, v.id + i, v.id + j)
                /\ At(C, v.id + i, N + j) = At(C, v.id + i, v.id + j)
           /\ \A i \in 0..(v.size - 1), j \in 0..(N - 1) :
                At(C, N + i, j) = At(C, v.id + i, j)
           /\ \A i, j \in 0..(N - 1) : At(C, i, j) = At(state.Cov, i, j)
           /\ \A g \in Handles \ {h} : state'.types[g] = state.types[g]
           /\ state'.variables = Append(state.variables, h)]_vars

\* the velocity, a sub-variable of the IMU correlated with the rest, is cloned
C4_Witness ==
  /\ state.ok /\ call.op = "clone" /\ call.args = VEL
  /\ At(state.Cov, state.Cov.rows - 1, 1) # RZero
  /\ state.Cov.rows >= 5

\* M without the rows and columns id .. id + size - 1
DeleteRowsCols(M, id, size) ==
  Mat(M.rows - size, M.cols - size,
      LAMBDA i, j : At(M, IF i < id THEN i ELSE i + size,
                          IF j < id THEN j ELSE j + size))

\* C5: marginalize(m) on a symmetric Cov deletes the rows and columns of m,
\* drops m from variables keeping the order, moves the ids behind m forward
\* by the size of m, keeps the other ids and detaches m.
C5_MarginalizeExact ==
  [][(call'.op = "marginalize" /\ state'.ok /\ IsSymmetric(state.Cov)) =>
       LET m == call'.args
           id_m == state.types[m].id
           s_m == state.types[m].size
       IN  /\ state'.Cov = DeleteRowsCols(state.Cov, id_m, s_m)
           /\ state'.variables = SelectSeq(state.variables, LAMBDA h : h # m)
           /\ \A k \in 1..Len(state'.variables) :
                state'.types[state'.variables[k]].id
                  = IF state.types[state'.variables[k]].id > id_m
                    THEN state.types[state'.variables[k]].id - s_m
                    ELSE state.types[state'.variables[k]].id
           /\ state'.types[m].id = -1]_vars

\* the first of three landmarks, between the IMU and the others, is removed
C5_Witness ==
  /\ state.ok /\ call.op = "marginalize" /\ call.args = 5
  /\ state.variables = <<IMU, 6, 7>>
  /\ At(state.Cov, 0, 3) # RZero

\* C6: when initialize returns false, Cov, variables, every object in the
\* state and the maps are as before, and new_variable is detached with the
\* value it was made with.
C6_GateRejection ==
  [][(call'.op = "initialize" /\ state'.ok /\ ~ret'.b) =>
       /\ state'.Cov = state.Cov
       /\ state'.variables = state.variables
       /\ \A h \in Handles \ {call'.new_variable} : state'.types[h] = state.types[h]
       /\ state'.types[call'.new_variable] = NewObject("Landmark", 1)
       /\ ~InVariables(state', call'.new_variable)
       /\ state'.clones_IMU = state.clones_IMU
       /\ state'.features_SLAM = state.features_SLAM
       /\ state'.timestamp = state.timestamp]_vars

\* initialize has returned false on a residual outside the gate
C6_Witness ==
  /\ state.ok /\ call.op = "initialize" /\ ~ret.b
  /\ At(call.args.res, 1, 0) = RInt(10)

\* the operations that do not change the layout
NonStructuralOps ==
  {"propagate", "update", "set_initial_covariance", "get_marginal_covariance",
   "get_full_covariance"}

VariableSet(s) == {s.variables[k] : k \in 1..Len(s.variables)}

\* C7: propagate, update, set_initial_covariance and the two getters keep
\* the side of Cov, variables, every id and both maps; a variable enters
\* only through clone, augment_clone, initialize and initialize_invertible
\* and leaves only through marginalize, marginalize_old_clone and
\* marginalize_slam.
C7_LayoutFrame ==
  [][/\ call'.op \in NonStructuralOps =>
          /\ state'.Cov.rows = state.Cov.rows
          /\ state'.Cov.cols = state.Cov.cols
          /\ state'.variables = state.variables
          /\ \A h \in Handles : state'.types[h].id = state.types[h].id
          /\ state'.clones_IMU = state.clones_IMU
          /\ state'.features_SLAM = state.features_SLAM
     /\ VariableSet(state') \ VariableSet(state) # {} =>
          call'.op \in {"clone", "augment_clone", "initialize", "initialize_invertible"}
     /\ VariableSet(state) \ VariableSet(state') # {} =>
          call'.op \in {"marginalize", "marginalize_old_clone", "marginalize_slam"}]_vars

\* propagate has returned with a covariance it changed
C7_Witness ==
  /\ state.ok /\ call.op = "propagate"
  /\ At(state.Cov, 1, 2) # RZero
  /\ state.variables = <<IMU>>

\* C8: every marginalization and every erasure from the clone map or the
\* SLAM-feature map, in marginalize_old_clone and in marginalize_slam, runs
\* while no reader holds the state mutex.
C8_MutexDiscipline ==
  [][(/\ call'.op \in {"marginalize_old_clone", "marginalize_slam"}
      /\ \/ state'.variables # state.variables
         \/ state'.clones_IMU # state.clones_IMU
         \/ state'.features_SLAM # state.features_SLAM)
     => mutex_state = "free"]_vars

\* the oldest clone time, as the least key of the map
Oldest(s) == CHOOSE t \in DOMAIN s.clones_IMU : \A u \in DOMAIN s.clones_IMU : t <= u

\* C9: marginalize_old_clone leaves a window of at most max_clone_size clones
\* alone, and otherwise marginalizes the clone of the oldest time, erases
\* that entry and keeps the other clones; with augment_clone and
\* marginalize_old_clone called at every frame the window holds at most
\* max_clone_size clones after every marginalize_old_clone.
C9_SlidingWindow ==
  [][(call'.op = "marginalize_old_clone" /\ state'.ok) =>
       /\ Cardinality(DOMAIN state.clones_IMU) <= state.options.max_clone_size
            => state' = state
       /\ Cardinality(DOMAIN state.clones_IMU) > state.options.max_clone_size
            => /\ DOMAIN state'.clones_IMU = DOMAIN state.clones_IMU \ {Oldest(state)}
               /\ \A u \in DOMAIN state'.clones_IMU :
                    /\ state'.clones_IMU[u] = state.clones_IMU[u]
                    /\ InVariables(state', state.clones_IMU[u])
               /\ ~InVariables(state', state.clones_IMU[Oldest(state)])
               /\ state'.types[state.clones_IMU[Oldest(state)]].id = -1
               /\ Len(state'.variables) = Len(state.variables) - 1
       /\ Cardinality(DOMAIN state'.clones_IMU) <= state.options.max_clone_size]_vars

\* the window was full at the second frame and its oldest clone went
C9_Witness ==
  /\ state.ok /\ call.op = "marginalize_old_clone"
  /\ DOMAIN state.clones_IMU = {2}
  /\ Len(state.variables) = 2

\* C10: one call of marginalize_slam removes a feature from the map and from
\* the state exactly when its should_marg flag was set and its id was above
\* 4 * max_aruco_features; every other feature stays in the map, and in
\* variables when it was there.
C10_SlamSelection ==
  [][(call'.op = "marginalize_slam" /\ state'.ok) =>
       \A f \in DOMAIN state.features_SLAM :
         LET h == state.features_SLAM[f]
             selected == /\ state.types[h].should_marg
                         /\ f > 4 * state.options.max_aruco_features
         IN  /\ selected <=> f \notin DOMAIN state'.features_SLAM
             /\ selected => ~InVariables(state', h) /\ state'.types[h].id = -1
             /\ ~selected =>
                  /\ state'.features_SLAM[f] = h
                  /\ InVariables(state, h) => InVariables(state', h)]_vars

\* two features went in one pass; the flagged feature with the last aruco id stays
C10_Witness ==
  /\ state.ok /\ call.op = "marginalize_slam"
  /\ DOMAIN state.features_SLAM = {4 * state.options.max_aruco_features}
  /\ state.types[state.features_SLAM[4 * state.options.max_aruco_features]].should_marg
  /\ state.variables = <<IMU, 5>>

\* clones_IMU: distinct times hold distinct poses, attached and in variables
CloneMapInv(s) ==
  /\ \A t, u \in DOMAIN s.clones_IMU : t # u => s.clones_IMU[t] # s.clones_IMU[u]
  /\ \A t \in DOMAIN s.clones_IMU :
       /\ s.types[s.clones_IMU[t]].kind = "PoseJPL"
       /\ s.types[s.clones_IMU[t]].id >= 0
       /\ InVariables(s, s.clones_IMU[t])

\* augment_clone refuses a second clone at the state time, and otherwise
\* files the variable it appended under the state time
AugmentCloneStep ==
  call'.op = "augment_clone" =>
    IF state.timestamp \in DOMAIN state.clones_IMU
    THEN /\ ~state'.ok
         /\ state'.Cov = state.Cov
         /\ state'.variables = state.variables
         /\ state'.clones_IMU = state.clones_IMU
    ELSE /\ state'.ok
         /\ DOMAIN state'.clones_IMU = DOMAIN state.clones_IMU \cup {state.timestamp}
         /\ \A t \in DOMAIN state.clones_IMU : state'.clones_IMU[t] = state.clones_IMU[t]
         /\ Len(state'.variables) = Len(state.variables) + 1
         /\ state'.clones_IMU[state.timestamp] = state'.variables[Len(state'.variables)]

\* C11: in every state reached by augment_clone, marginalize_old_clone,
\* marginalize_slam, propagate and update the clone map sends distinct times
\* to distinct poses, each attached and present in variables; augment_clone
\* aborts before changing Cov, variables or the map when the state time has
\* a clone, and otherwise adds exactly one entry, keyed by the state time,
\* whose pose is the variable appended last.
C11_CloneMap == [](CloneMapInv(state)) /\ [][AugmentCloneStep]_vars

\* a second clone has been filed under a later time
C11_Witness ==
  /\ state.ok /\ call.op = "augment_clone"
  /\ Cardinality(DOMAIN state.clones_IMU) = 2
  /\ state.clones_IMU[0] # state.clones_IMU[1]

\* C12: propagate with Phi the identity and Q zero, over a contiguous
\* order_new and an order_old listing the same variables in the same order,
\* on a symmetric Cov, leaves every entry of Cov as it was.
C12_IdentityPropagation ==
  [][(/\ call'.op = "propagate"
      /\ Len(call'.args.order_NEW) > 0
      /\ call'.args.order_OLD = call'.args.order_NEW
      /\ Contiguous(state, call'.args.order_NEW)
      /\ call'.args.Phi = Identity(OrderSize(state, call'.args.order_NEW))
      /\ call'.args.Q = Zero(call'.args.Phi.rows, call'.args.Phi.rows)
      /\ IsSymmetric(state.Cov))
     => /\ state'.ok = NonNegDiag(state.Cov)
        /\ state'.Cov = state.Cov]_vars

\* the pose of a state with a dense covariance went through the identity
C12_Witness ==
  /\ state.ok /\ call.op = "propagate"
  /\ call.args.order_NEW = <<POSE>> /\ call.args.order_OLD = <<POSE>>
  /\ call.args.Phi = Identity(2) /\ call.args.Q = Zero(2, 2)
  /\ At(state.Cov, 0, 1) # RZero /\ At(state.Cov, 1, 2) # RZero
  /\ state.Cov.rows >= 3

\* the variables of an order occupy pairwise disjoint rows of Cov
Disjoint(s, order) ==
  \A i, k \in 1..Len(order) :
    i # k => \/ s.types[order[i]].id + s.types[order[i]].size <= s.types[order[k]].id
             \/ s.types[order[k]].id + s.types[order[k]].size <= s.types[order[i]].id

\* the row of Cov that holds row a of a matrix laid out along an order
CovIndex(s, order, a) ==
  LET ids == OrderIds(s, order)
      i == CHOOSE k \in 1..Len(order) :
             ids[k] <= a /\ a < ids[k] + s.types[order[k]].size
  IN  s.types[order[i]].id + (a - ids[i])

\* the upper triangle of Cov decides: entries the order puts below the
\* diagonal of Cov come back as their mirror images
Reflected(s, order, input) ==
  Mat(input.rows, input.cols,
      LAMBDA a, b : IF CovIndex(s, order, a) <= CovIndex(s, order, b)
                    THEN At(input, a, b) ELSE At(input, b, a))

\* C13 as stated: for every order of distinct attached variables and every
\* square input of the matching size, get_marginal_covariance(order) right
\* after set_initial_covariance(input, order) returns the input, and
\* get_marginal_covariance leaves the State as it was.
C13_Stated ==
  [][(call'.op = "get_marginal_covariance") =>
       /\ state' = state
       /\ (call.op = "set_initial_covariance" /\ call'.args = call.args.order)
            => ret'.m = call.args.covariance]_vars

\* C13: for an order of attached variables with pairwise disjoint rows,
\* sorted or not, get_marginal_covariance(order) right after
\* set_initial_covariance(input, order) returns the input with every entry
\* that the order puts below the diagonal of Cov replaced by its mirror
\* image, hence the input itself when the input is symmetric;
\* get_marginal_covariance leaves the State as it was.
C13_RoundTrip ==
  [][(call'.op = "get_marginal_covariance") =>
       /\ state' = state
       /\ (/\ call.op = "set_initial_covariance"
           /\ call'.args = call.args.order
           /\ Disjoint(state, call.args.order))
            => /\ ret'.m = Reflected(state, call.args.order, call.args.covariance)
               /\ IsSymmetric(call.args.covariance) => ret'.m = call.args.covariance]_vars

\* a symmetric input came back over an order that runs against the ids
C13_Witness ==
  /\ call.op = "get_marginal_covariance" /\ call.args = <<VEL, POSE>>
  /\ ret.kind = "matrix" /\ ret.m = SymmetricInput(3)
  /\ Block(state.Cov, 0, 0, 2, 2) = Block(SymmetricInput(3), 1, 1, 2, 2)

\* H scattered to the columns of Cov that the variables of an order occupy
Scatter(s, order, H) ==
  Mat(H.rows, s.Cov.cols,
      LAMBDA i, j :
        LET cs == {c \in 0..(H.cols - 1) : CovIndex(s, order, c) = j}
        IN  IF cs = {} THEN RZero ELSE At(H, i, CHOOSE c \in cs : TRUE))

\* C14 as stated: after initialize_invertible with H_L = I and R = sigma^2 I
\* the new diagonal block is sigma^2 I and the new cross block is
\* -Cov * H_R' over the columns of H_order.
C14_Stated ==
  [][(/\ call'.op = "initialize_invertible" /\ state'.ok
      /\ call'.args.H_L = Identity(call'.args.H_L.rows))
     => LET N == state.Cov.rows
            n == call'.args.H_L.rows
            Hfull == Scatter(state, call'.args.H_order, call'.args.H_R)
        IN  /\ Block(state'.Cov, N, N, n, n) = call'.args.R
            /\ Block(state'.Cov, 0, N, N, n) = MatNeg(MatMul(state.Cov, Transpose(Hfull)))]_vars

\* C14: after initialize_invertible with H_L = I and R = sigma^2 I on a
\* symmetric Cov of side N the new diagonal block is
\* H_R * P_small * H_R' + sigma^2 I, which is sigma^2 I only when
\* H_R * P_small * H_R' is zero, the new cross block Cov[0:N, N:N+s] is
\* -Cov * H_R' over the columns of H_order, the block below is its
\* transpose and the old N x N block is as before.
C14_InvertibleInit ==
  [][(/\ call'.op = "initialize_invertible" /\ state'.ok
      /\ call'.args.H_L = Identity(call'.args.H_L.rows)
      /\ IsSymmetric(state.Cov))
     => LET N == state.Cov.rows
            n == call'.args.H_L.rows
            Hfull == Scatter(state, call'.args.H_order, call'.args.H_R)
            HPH == MatMul(MatMul(Hfull, state.Cov), Transpose(Hfull))
        IN  /\ state'.Cov.rows = N + n
            /\ Block(state'.Cov, N, N, n, n) = MatAdd(HPH, call'.args.R)
            /\ (Block(state'.Cov, N, N, n, n) = call'.args.R) <=> (HPH = Zero(n, n))
            /\ Block(state'.Cov, 0, N, N, n) = MatNeg(MatMul(state.Cov, Transpose(Hfull)))
            /\ Block(state'.Cov, N, 0, n, N) = MatNeg(MatMul(Hfull, state.Cov))
            /\ Block(state'.Cov, 0, 0, N, N) = state.Cov]_vars

\* a landmark measured through the velocity and the pose has entered a state
\* with a dense covariance
C14_Witness ==
  /\ state.ok /\ call.op = "initialize_invertible"
  /\ call.args.H_L = Identity(1) /\ call.args.H_order = <<VEL, POSE>>
  /\ call.args.R = IntMat(<<<<3>>>>)
  /\ At(state.Cov, 0, 1) # RZero
  /\ At(state.Cov, state.Cov.rows - 1, state.Cov.rows - 1) # RInt(3)
  /\ At(state.Cov, 0, state.Cov.rows - 1) # RZero

\* C15: update on a symmetric Cov, over an H_order in any order and with
\* gaps, leaves Cov = Cov - Cov*Hfull' * (Hfull*Cov*Hfull' + R)^-1 * Hfull*Cov
\* with Hfull the Jacobian scattered to the columns of the H_order variables,
\* and adds to the value of every variable the rows of dx = K*r at its ids;
\* Cov = diag(4, 1), H = [1 0], r = 2, R = 1 gives Cov = diag(0.8, 1) and
\* dx = [1.6, 0].
C15_UpdateResult ==
  [][(call'.op = "update" /\ IsSymmetric(state.Cov)) =>
       LET Hfull == Scatter(state, call'.args.H_order, call'.args.H)
           PHt == MatMul(state.Cov, Transpose(Hfull))
           S == MatAdd(MatMul(Hfull, PHt), call'.args.R)
           K == MatMul(PHt, Inverse(S))
           dx == MatMul(K, call'.args.res)
       IN  /\ state'.Cov = MatSub(state.Cov, MatMul(K, MatMul(Hfull, state.Cov)))
           /\ state'.ok =>
                 \A h \in VariableSet(state) \cup {POSE, VEL} :
                   state.types[h].id >= 0 =>
                     state'.types[h].value
                       = [i \in 1..state.types[h].size |->
                            RAdd(state.types[h].value[i],
                                 At(dx, state.types[h].id + i - 1, 0))]
           /\ (/\ Block(state.Cov, 0, 0, 2, 2) = IntMat(<<<<4, 0>>, <<0, 1>>>>)
               /\ Block(state.Cov, 0, 2, 2, state.Cov.cols - 2)
                    = Zero(2, state.Cov.cols - 2)
               /\ call'.args.H_order = <<POSE>>
               /\ call'.args.H = IntMat(<<<<1, 0>>>>)
               /\ call'.args.res = IntMat(<<<<2>>>>)
               /\ call'.args.R = IntMat(<<<<1>>>>))
              => /\ Block(state'.Cov, 0, 0, 2, 2)
                      = Mat(2, 2, LAMBDA i, j : IF i # j THEN RZero
                                                ELSE IF i = 0 THEN Rat(4, 5) ELSE ROne)
                 /\ Block(dx, 0, 0, 2, 1)
                      = Mat(2, 1, LAMBDA i, j : IF i = 0 THEN Rat(8, 5) ELSE RZero)]_vars

\* the seed update has run on a pose block diag(4, 1): the block is
\* diag(4/5, 1) and the pose has moved by (8/5, 0)
C15_Witness ==
  /\ state.ok /\ call.op = "update"
  /\ call.args.H_order = <<POSE>> /\ call.args.res = IntMat(<<<<2>>>>)
  /\ At(state.Cov, 0, 0) = Rat(4, 5) /\ At(state.Cov, 1, 1) = ROne
  /\ At(state.Cov, 0, 1) = RZero
  /\ state.types[POSE].value = <<Rat(8, 5), RZero>>

\* the two estimators agree on Cov, on variables and on every object but h
SameBut(s, u, h) ==
  /\ s.Cov = u.Cov
  /\ s.variables = u.variables
  /\ \A g \in Handles \ {h} : s.types[g] = u.types[g]

\* C16: an estimator that clones v, runs propagate and update calls that do
\* not list the clone and then marginalizes the clone ends with the Cov, the
\* variables, the ids and the values of the estimator that ran the same
\* calls without the clone; clone followed at once by marginalize restores
\* Cov, its side, variables and every id.
C16_MarginalizationConsistency ==
  (call.op = "marginalize" /\ state.ok)
    => /\ twin.ok
       /\ SameBut(state, twin, call.args)
       /\ state.types[call.args].id = -1
       /\ ~InVariables(state, call.args)

\* the clone went after a propagation and an update that moved the values
C16_Witness ==
  /\ call.op = "marginalize" /\ state.ok /\ steps = 2 /\ call.after = "update"
  /\ state.types[POSE].value # <<RZero, RZero>>
  /\ \E i, j \in 0..2 : At(state.Cov, i, j) # At(Identity(3), i, j)
  /\ state.Cov = twin.Cov

\* C17: propagate on a symmetric Cov, with b the id of order_new[0] and m
\* the rows of Phi, leaves Cov[b:b+m, b:b+m] = Phi * Cov[old, old] * Phi' + Q
\* (Q as its upper triangle gives it), Cov[r, b:b+m] = Cov[r, old] * Phi' for
\* the rows r outside [b, b+m) with the transpose in Cov[b:b+m, r], and every
\* entry with row and column outside [b, b+m) as it was, old being the
\* columns of order_old in any order; with an empty order or an order_new
\* that is not contiguous it aborts and no entry of Cov is written.
C17_PropagationWriteBack ==
  [][(call'.op = "propagate" /\ IsSymmetric(state.Cov)) =>
       LET order_NEW == call'.args.order_NEW
           order_OLD == call'.args.order_OLD
           Phi == call'.args.Phi
       IN  IF \/ Len(order_NEW) = 0 \/ Len(order_OLD) = 0
              \/ \E i \in 1..(Len(order_NEW) - 1) :
                   state.types[order_NEW[i]].id + state.types[order_NEW[i]].size
                     # state.types[order_NEW[i + 1]].id
           THEN ~state'.ok /\ state'.Cov = state.Cov
           ELSE LET b == state.types[order_NEW[1]].id
                    m == Phi.rows
                    Phifull == Scatter(state, order_OLD, Phi)
                    cross == MatMul(state.Cov, Transpose(Phifull))
                    new == MatAdd(MatMul(Phifull, cross),
                                  SelfadjointUpper(call'.args.Q))
                    In(i) == b <= i /\ i < b + m
                IN  /\ state'.Cov.rows = state.Cov.rows
                    /\ state'.Cov.cols = state.Cov.cols
                    /\ \A i, j \in 0..(state.Cov.rows - 1) :
                         At(state'.Cov, i, j)
                           = IF In(i) /\ In(j) THEN At(new, i - b, j - b)
                             ELSE IF In(j) THEN At(cross, i, j - b)
                             ELSE IF In(i) THEN At(cross, j, i - b)
                             ELSE At(state.Cov, i, j)
                    /\ IsSymmetric(call'.args.Q) =>
                         Block(state'.Cov, b, b, m, m)
                           = MatAdd(MatMul(Phifull, cross), call'.args.Q)]_vars

\* the velocity was propagated from the velocity and the pose, out of their
\* order, in a state with variables behind the velocity
C17_Witness ==
  /\ state.ok /\ call.op = "propagate"
  /\ call.args.order_NEW = <<VEL>> /\ call.args.order_OLD = <<VEL, POSE>>
  /\ state.Cov.rows >= 4
  /\ At(state.Cov, 2, 3) # RZero /\ At(state.Cov, 0, 2) # RZero

====
